---- MODULE Spec2Model ----
(***************************************************************************)
(* Memory MCP server: the token-budgeted content optimizer                 *)
(* (src/src/api_utils.py: OptimizedCache, DeepSeekClient) and the memory   *)
(* store tools that use it (src/src/memory_server.py).                     *)
(*                                                                         *)
(* A Python str is a sequence of one-character strings.  The tokenizer     *)
(* (tiktoken, an external library) is abstracted to one token per          *)
(* character; SHA-256 is abstracted to an injective function of the        *)
(* formatted key string, so a cache key is the formatted key itself.       *)
(* The clock counts seconds.                                               *)
(***************************************************************************)
EXTENDS Integers, Sequences, FiniteSets, TLC

VARIABLES
    cache,        \* OptimizedCache.cache: cache key -> OptimizedCacheEntry
    now,          \* datetime.now(), in seconds since process start
    api_key,      \* the environment holds OPENAI_API_KEY
    initialized,  \* DeepSeekClient._initialized
    client,       \* DeepSeekClient.client is not None
    store,        \* memory_server._memory_store
    file,         \* the memory_items list of DATA_FILE
    res,          \* what the last completed call returned (observation)
    replaced,     \* memory id -> contents update_memory replaced (observation)
    nops,         \* number of calls made so far
    inflight,     \* thread -> where its optimize_memory_item call stands, its locals
    episode       \* what the calls in flight together have done (observation)

vars == <<cache, now, api_key, initialized, client, store, file, res, replaced, nops,
          inflight, episode>>

(***************************************************************************)
(* Bounds of the model                                                     *)
(***************************************************************************)
MaxOps == 2          \* calls of the optimizer client in one run
MaxServerOps == 3    \* calls of the memory tools in one run
MaxCacheOps == 4     \* steps of the cache alone in one run
MaxLate == 3         \* the clock shows at most MaxLate seconds past 0 or past TTL

(***************************************************************************)
(* Program constants                                                       *)
(***************************************************************************)
TTL == 3600          \* OptimizedCache(ttl_hours=1), as seconds
MaxAttempts == 3     \* for attempt in range(3)

\* The clock values of the model: within MaxLate seconds after 0 or after TTL
ClockOk(t) == t <= TTL + MaxLate /\ t % TTL <= MaxLate

(***************************************************************************)
(* Strings                                                                 *)
(***************************************************************************)
Digit(d) ==
    CASE d = 0 -> "0" [] d = 1 -> "1" [] d = 2 -> "2" [] d = 3 -> "3"
      [] d = 4 -> "4" [] d = 5 -> "5" [] d = 6 -> "6" [] d = 7 -> "7"
      [] d = 8 -> "8" [] d = 9 -> "9"

RECURSIVE NatStr(_)
NatStr(n) == IF n < 10 THEN <<Digit(n)>> ELSE NatStr(n \div 10) \o <<Digit(n % 10)>>

\* str(max_tokens) inside the f-string
IntStr(n) == IF n < 0 THEN <<"-">> \o NatStr(-n) ELSE NatStr(n)

RECURSIVE LStrip(_)
LStrip(s) == IF s # <<>> /\ Head(s) = " " THEN LStrip(Tail(s)) ELSE s

RECURSIVE RStrip(_)
RStrip(s) ==
    IF s # <<>> /\ s[Len(s)] = " " THEN RStrip(SubSeq(s, 1, Len(s) - 1)) ELSE s

\* str.strip()
Strip(s) == RStrip(LStrip(s))

\* Optional[str]: None, or a str
None == [some |-> FALSE, text |-> <<>>]
Some(s) == [some |-> TRUE, text |-> s]

\* Python truth value of an Optional[str]: None and "" are false
Truthy(v) == v.some /\ v.text # <<>>

(***************************************************************************)
(* Inputs                                                                  *)
(***************************************************************************)
Contents == { <<>>, <<"a", "b">>, <<"a", ":", "1">> }
Budgets == { -1, 2 }

\* What one chat.completions.create call does: it answers with a text, or the
\* attempt fails with an exception inside the try block (network, timeout,
\* API error, or a response whose message.content is None, on which .strip()
\* raises AttributeError).
RawTexts == { <<" ">>, <<" ", "x">> }
Replies ==
    { [kind |-> "raise", text |-> <<>>] }
    \cup { [kind |-> "text", text |-> t] : t \in RawTexts }

(***************************************************************************)
(* OptimizedCache                                                          *)
(***************************************************************************)
\* Mutants of _get_hash: a key that leaves the budget out, and a key made
\* from the first character of the content only
HashContentOnly(content, max_tokens) == content \o <<":">>
HashPrefix(content, max_tokens) ==
    SubSeq(content, 1, 1) \o <<":">> \o IntStr(max_tokens)

\* f"{content}:{max_tokens}", then sha256(...).hexdigest()
_get_hash(content, max_tokens) == content \o <<":">> \o IntStr(max_tokens)

\* An entry; for_content and for_max_tokens are observation fields recording
\* the arguments of the set that stored it.
Entry(text, t, original_tokens, optimized_tokens, content, max_tokens) ==
    [optimized_text |-> text, timestamp |-> t,
     original_tokens |-> original_tokens, optimized_tokens |-> optimized_tokens,
     for_content |-> content, for_max_tokens |-> max_tokens]

\* Mutant of Expired: an entry exactly TTL old counts as expired
ExpiredAtTTL(entry, t) == t - entry.timestamp >= TTL

\* now - entry.timestamp > self.ttl
Expired(entry, t) == t - entry.timestamp > TTL

Without(c, key) == [k \in DOMAIN c \ {key} |-> c[k]]

\* Mutants of CacheGet: an expired entry is reported absent but not deleted;
\* a hit renews the timestamp of the entry
CacheGetRenews(c, content, max_tokens, t) ==
    LET cache_key == _get_hash(content, max_tokens) IN
    IF cache_key \notin DOMAIN c
    THEN [value |-> None, cache |-> c]
    ELSE IF t - c[cache_key].timestamp > TTL
    THEN [value |-> None, cache |-> Without(c, cache_key)]
    ELSE [value |-> Some(c[cache_key].optimized_text),
          cache |-> [c EXCEPT ![cache_key].timestamp = t]]

CacheGetKeepsExpired(c, content, max_tokens, t) ==
    LET cache_key == _get_hash(content, max_tokens) IN
    IF cache_key \notin DOMAIN c \/ Expired(c[cache_key], t)
    THEN [value |-> None, cache |-> c]
    ELSE [value |-> Some(c[cache_key].optimized_text), cache |-> c]

\* OptimizedCache.get: the value returned and the cache afterwards
CacheGet(c, content, max_tokens, t) ==
    LET cache_key == _get_hash(content, max_tokens) IN
    IF cache_key \notin DOMAIN c
    THEN [value |-> None, cache |-> c]
    ELSE IF Expired(c[cache_key], t)
    THEN [value |-> None, cache |-> Without(c, cache_key)]
    ELSE [value |-> Some(c[cache_key].optimized_text), cache |-> c]

\* OptimizedCache.set: the cache afterwards
CacheSet(c, content, max_tokens, optimized_text, original_tokens, optimized_tokens, t) ==
    LET cache_key == _get_hash(content, max_tokens)
        entry == Entry(optimized_text, t, original_tokens, optimized_tokens,
                       content, max_tokens)
    IN  [k \in DOMAIN c \cup {cache_key} |-> IF k = cache_key THEN entry ELSE c[k]]

\* OptimizedCache.clear
CacheClear(c) == <<>>

\* sum(e.original_tokens - e.optimized_tokens ...) over the entries under keys
RECURSIVE SumSaved(_, _)
SumSaved(c, keys) ==
    IF keys = {} THEN 0
    ELSE LET k == CHOOSE x \in keys : TRUE
         IN  c[k].original_tokens - c[k].optimized_tokens + SumSaved(c, keys \ {k})

\* sum(e.original_tokens ...) over the entries under keys
RECURSIVE SumOriginal(_, _)
SumOriginal(c, keys) ==
    IF keys = {} THEN 0
    ELSE LET k == CHOOSE x \in keys : TRUE
         IN  c[k].original_tokens + SumOriginal(c, keys \ {k})

\* The statistics of the entries of c under keys.  avg_reduction is the float
\* 0.0 when there is no entry, else f"{avg_reduction:.1f}%": tenths of a
\* percent, rounded to nearest, of total_saved / total_original * 100, and of
\* 0 when total_original is 0.
StatsOver(c, keys) ==
    LET total_saved == SumSaved(c, keys)
        total_original == SumOriginal(c, keys)
    IN  IF Cardinality(keys) = 0
        THEN [total_entries |-> 0, avg_reduction |-> [fmt |-> "float", tenths |-> 0],
              total_tokens_saved |-> 0]
        ELSE [total_entries |-> Cardinality(keys),
              avg_reduction |->
                [fmt |-> ".1f%",
                 tenths |-> IF total_original > 0
                            THEN (2000 * total_saved + total_original)
                                     \div (2 * total_original)
                            ELSE 0],
              total_tokens_saved |-> total_saved]

\* OptimizedCache.get_stats: over self.cache.values(), every entry of the dict
get_stats(c) == StatsOver(c, DOMAIN c)

(***************************************************************************)
(* DeepSeekClient                                                          *)
(***************************************************************************)
\* DeepSeekClient._initialize: the possible <<_initialized, client>> afterwards.
\* With an API key the OpenAI constructor either returns a client or raises.
_initialize(init, cl, key) ==
    IF init THEN { <<init, cl>> }
    ELSE IF ~key THEN { <<TRUE, cl>> }
    ELSE { <<TRUE, TRUE>>, <<TRUE, cl>> }

\* DeepSeekClient.count_tokens: len(self.encoding.encode(text))
count_tokens(text) == Len(text)

\* f"{(1 - optimized/original)*100:.1f}%": tenths of a percent, rounded to
\* nearest.  The division raises ZeroDivisionError when original is 0.
ReductionRaises(original_tokens) == original_tokens = 0
Reduction(optimized_tokens, original_tokens) ==
    [fmt |-> ".1f%",
     tenths |-> (2000 * (original_tokens - optimized_tokens) + original_tokens)
                    \div (2 * original_tokens)]
ReductionZero == [fmt |-> "0%", tenths |-> 0]       \* the literal "0%"
ReductionAbsent == [fmt |-> "absent", tenths |-> 0] \* no "reduction" key

\* Mutant of Backoff: every sleep lasts one second
BackoffConstant(attempt) == 1

\* time.sleep(2 ** attempt), attempt counted from 0
Backoff(attempt) == 2 ^ attempt

\* One time.sleep of the retry loop: its seconds, and the number of provider
\* calls made when it began (it is taken in the except clause of that call and
\* ends before the next iteration of the loop begins)
Sleep(secs, after) == [secs |-> secs, after |-> after]

\* if attempt < 2: sleep
SleepsAfter(attempt) == attempt < 2

\* The outcome of one optimize_memory_item call: whether an exception left the
\* call, the returned text and metadata, the cache and the clock afterwards,
\* the number of provider calls made, how many of them failed (raised, or
\* answered without content) and the sleeps taken.  source and derived_from
\* are observation fields: where the returned text came from.
Outcome(raised, text, success, original_tokens, optimized_tokens, cached, reduction, error, fallback, attempts, c, t, calls, failures, sleeps, source, from) ==
    [raised |-> raised, text |-> text, success |-> success,
     original_tokens |-> original_tokens, optimized_tokens |-> optimized_tokens,
     cached |-> cached, reduction |-> reduction, error |-> error,
     fallback |-> fallback, attempts |-> attempts,
     cache |-> c, now |-> t, calls |-> calls, failures |-> failures,
     sleeps |-> sleeps,
     source |-> source, derived_from |-> from]

\* lines 192-198: the cache hit.  The reduction is computed outside any try.
CacheHitOutcome(cached_text, content, original_tokens, c, t, from) ==
    IF ReductionRaises(original_tokens)
    THEN Outcome(TRUE, <<>>, FALSE, original_tokens, 0, FALSE, ReductionAbsent,
                 "ZeroDivisionError", FALSE, 0, c, t, 0, 0, <<>>, "cache", from)
    ELSE Outcome(FALSE, cached_text, TRUE, original_tokens, count_tokens(cached_text),
                 TRUE, Reduction(count_tokens(cached_text), original_tokens),
                 "", FALSE, 0, c, t, 0, 0, <<>>, "cache", from)

\* Mutants of WithinBudget: content exactly at the budget is sent out, or the
\* budget test is left out
NeverWithinBudget(original_tokens, max_tokens) == FALSE
StrictlyWithinBudget(original_tokens, max_tokens) == original_tokens < max_tokens

\* original_tokens <= max_tokens
WithinBudget(original_tokens, max_tokens) == original_tokens <= max_tokens

\* lines 202-209
BudgetOutcome(content, original_tokens, c, t) ==
    Outcome(FALSE, content, TRUE, original_tokens, original_tokens, FALSE,
            ReductionZero, "", FALSE, 0, c, t, 0, 0, <<>>, "raw", content)

\* Mutant of FallbackText: a fallback returns an empty text
FallbackTextEmpty(content) == <<>>

\* lines 214-221 and 278-285: the text a fallback returns
FallbackText(content) == content

\* lines 214-221
NoClientOutcome(content, original_tokens, c, t) ==
    Outcome(FALSE, FallbackText(content), FALSE, original_tokens, original_tokens,
            FALSE, ReductionAbsent, "DeepSeek client not initialized", TRUE, 0,
            c, t, 0, 0, <<>>, "raw", content)

\* lines 278-285
ExhaustedOutcome(content, original_tokens, c, t, calls, failures, sleeps) ==
    Outcome(FALSE, FallbackText(content), FALSE, original_tokens, original_tokens,
            FALSE, ReductionAbsent, "Optimization failed after 3 attempts", TRUE, 0,
            c, t, calls, failures, sleeps, "raw", content)

\* lines 261-268
SuccessOutcome(optimized, content, original_tokens, attempt, c, t, calls, failures, sleeps) ==
    Outcome(FALSE, optimized, TRUE, original_tokens, count_tokens(optimized), FALSE,
            Reduction(count_tokens(optimized), original_tokens), "", FALSE,
            attempt + 1, c, t, calls, failures, sleeps, "provider", content)

\* Mutant of UsesCache: the cache is used whatever use_cache says
UsesCacheAlways(use_cache) == TRUE

\* if use_cache: (line 189 before the lookup, line 257 before the set)
UsesCache(use_cache) == use_cache

\* Mutants of LoopDone: the loop gives up one attempt early, or makes one
\* attempt more
LoopDoneLate(attempt) == attempt >= MaxAttempts + 1
LoopDoneEarly(attempt) == attempt >= MaxAttempts - 1

\* for attempt in range(3): the loop is over
LoopDone(attempt) == attempt >= MaxAttempts

\* lines 241-274: the retry loop from `attempt` on; every provider reply is
\* possible at every attempt.  An exception raised anywhere in the try body,
\* the return expression included, is caught and counts as a failed attempt.
\* A provider call is taken to return at once.
RECURSIVE Attempts(_, _, _, _, _, _, _, _, _, _)
Attempts(attempt, c, t, calls, failures, sleeps, content, max_tokens, use_cache, original_tokens) ==
    IF LoopDone(attempt)
    THEN { ExhaustedOutcome(content, original_tokens, c, t, calls, failures, sleeps) }
    ELSE UNION {
        LET ok == reply.kind = "text"
            optimized == Strip(reply.text)
            c1 == IF ok /\ UsesCache(use_cache)
                  THEN CacheSet(c, content, max_tokens, optimized, original_tokens,
                                count_tokens(optimized), t)
                  ELSE c
            sleep == IF SleepsAfter(attempt)
                     THEN <<Sleep(Backoff(attempt), calls + 1)>> ELSE <<>>
            t1 == IF SleepsAfter(attempt) THEN t + Backoff(attempt) ELSE t
        IN  IF ok /\ ~ReductionRaises(original_tokens)
            THEN { SuccessOutcome(optimized, content, original_tokens, attempt,
                                  c1, t, calls + 1, failures, sleeps) }
            ELSE Attempts(attempt + 1, c1, t1, calls + 1,
                          IF ok THEN failures ELSE failures + 1, sleeps \o sleep,
                          content, max_tokens, use_cache, original_tokens)
        : reply \in Replies }

\* Mutant of ClientMissing: the test for a missing client is left out
ClientNeverMissing(cl) == FALSE

\* if not self.client
ClientMissing(cl) == ~cl

\* DeepSeekClient.optimize_memory_item after _initialize: every possible outcome
optimize_memory_item(c, t, cl, content, max_tokens, use_cache) ==
    LET original_tokens == count_tokens(content)
        got == IF UsesCache(use_cache) THEN CacheGet(c, content, max_tokens, t)
               ELSE [value |-> None, cache |-> c]
        c0 == got.cache
    IN  IF Truthy(got.value)
        THEN { CacheHitOutcome(got.value.text, content, original_tokens, c0, t,
                               c[_get_hash(content, max_tokens)].for_content) }
        ELSE IF WithinBudget(original_tokens, max_tokens)
        THEN { BudgetOutcome(content, original_tokens, c0, t) }
        ELSE IF ClientMissing(cl)
        THEN { NoClientOutcome(content, original_tokens, c0, t) }
        ELSE Attempts(0, c0, t, 0, 0, <<>>, content, max_tokens, use_cache,
                      original_tokens)

(***************************************************************************)
(* memory_server: the store and its data file                              *)
(***************************************************************************)
\* A memory item.  An id "mem-00n" is the number n; tags and project are
\* fields handled like title and are left out.
Item(id, title, content, updated_at) ==
    [id |-> id, title |-> title, content |-> content, updated_at |-> updated_at]

\* load_memories: the memory_items of the data file, [] when there is no file
load_memories(f) == IF f.exists THEN f.items ELSE <<>>

\* get_memory_store: `if not _memory_store` reloads an empty store from the file
get_memory_store(st, f) == IF st = <<>> THEN load_memories(f) ELSE st

\* The index of the first item whose id matches, 0 when there is none
RECURSIVE FindFrom(_, _, _)
FindFrom(st, id, i) ==
    IF i > Len(st) THEN 0
    ELSE IF st[i].id = id THEN i
    ELSE FindFrom(st, id, i + 1)

\* Mutant of Find: an id that matches no item finds the first item
FindOrFirst(st, id) ==
    IF FindFrom(st, id, 1) = 0 /\ st # <<>> THEN 1 ELSE FindFrom(st, id, 1)

\* for mem in memories: if mem["id"].lower() == memory_id.lower()
Find(st, id) == FindFrom(st, id, 1)

\* Mutant of save_memory_data: the file is written with the items it held
SaveKeepsItems(st, f) == [exists |-> TRUE, items |-> load_memories(f)]

\* save_memory_data: the file afterwards; its memory_items are get_memory_store()
save_memory_data(st, f) == [exists |-> TRUE, items |-> get_memory_store(st, f)]

\* reset_memory_store: _memory_store = load_memories()
reset_memory_store(f) == load_memories(f)

\* f"mem-{n:03d}": the decimal digits of n, zero-padded on the left to three
RECURSIVE Pad3(_)
Pad3(s) == IF Len(s) < 3 THEN Pad3(<<"0">> \o s) ELSE s

IdStr(n) == <<"m", "e", "m", "-">> \o Pad3(NatStr(n))

\* int(...) of a string of decimal digits
DigitVal(c) == CHOOSE d \in 0 .. 9 : Digit(d) = c

RECURSIVE ParseNat(_)
ParseNat(s) ==
    IF s = <<>> THEN 0
    ELSE 10 * ParseNat(SubSeq(s, 1, Len(s) - 1)) + DigitVal(s[Len(s)])

\* int(mem["id"].split("-")[1]) of an id "mem-<digits>"
IdNum(s) == ParseNat(SubSeq(s, 5, Len(s)))

\* The highest number among the ids of st[i..], starting from max_num
RECURSIVE MaxNumFrom(_, _, _)
MaxNumFrom(st, i, max_num) ==
    IF i > Len(st) THEN max_num
    ELSE LET num == IdNum(IdStr(st[i].id))
         IN  MaxNumFrom(st, i + 1, IF num > max_num THEN num ELSE max_num)

\* generate_memory_id, called when _memory_store is st: the id it returns.
\* Its get_memory_store() call leaves _memory_store = get_memory_store(st, f).
generate_memory_id(st, f) ==
    LET memories == get_memory_store(st, f)
    IN  IF memories = <<>> THEN IdStr(1)
        ELSE IdStr(MaxNumFrom(memories, 1, 0) + 1)

\* memories.pop(i)
RemoveAt(st, i) == SubSeq(st, 1, i - 1) \o SubSeq(st, i + 1, Len(st))

(***************************************************************************)
(* Observations                                                            *)
(***************************************************************************)
\* What a call returned.  n numbers the calls of a run, at is the clock when
\* the call began, ok says that the call returned (for a memory tool: with
\* success true; for cache.get: that the key was in the cache), value is an
\* Optional[str] the call returned or was given; the fields from raised on
\* are those of the optimizer's outcome.
Obs(n, op, id, content, max_tokens, use_cache, at, ok, value, o) ==
    [n |-> n, op |-> op, id |-> id, content |-> content, max_tokens |-> max_tokens,
     use_cache |-> use_cache, at |-> at, ok |-> ok, value |-> value,
     raised |-> o.raised, text |-> o.text, success |-> o.success,
     original_tokens |-> o.original_tokens, optimized_tokens |-> o.optimized_tokens,
     cached |-> o.cached, reduction |-> o.reduction, error |-> o.error,
     fallback |-> o.fallback, attempts |-> o.attempts, end |-> o.now,
     calls |-> o.calls, failures |-> o.failures, sleeps |-> o.sleeps,
     source |-> o.source, derived_from |-> o.derived_from]

\* The outcome fields of a call that did not reach the optimizer
NoOutcome(c, t) ==
    Outcome(FALSE, <<>>, FALSE, 0, 0, FALSE, ReductionAbsent, "", FALSE, 0,
            c, t, 0, 0, <<>>, "none", <<>>)

\* get_memory's result for an id that matches no item: success false and an
\* error naming the id
NotFoundOutcome(c, t) ==
    Outcome(FALSE, <<>>, FALSE, 0, 0, FALSE, ReductionAbsent, "not found", FALSE, 0,
            c, t, 0, 0, <<>>, "none", <<>>)

NoObs == Obs(0, "none", 0, <<>>, 0, FALSE, 0, FALSE, None, NoOutcome(<<>>, 0))

Ids == 1 .. 2

\* The threads that call optimize_memory_item
Threads == 1 .. 2

\* The entry a call holds after self.cache.get(cache_key), the dict lookup
NoEntry == [some |-> FALSE, optimized_text |-> <<>>, timestamp |-> 0, for_content |-> <<>>]
HeldEntry(e) ==
    [some |-> TRUE, optimized_text |-> e.optimized_text, timestamp |-> e.timestamp,
     for_content |-> e.for_content]

\* A thread that is not inside a call
IdleThread ==
    [pc |-> "idle", content |-> <<>>, max_tokens |-> 0, at |-> 0, entry |-> NoEntry,
     attempt |-> 0, optimized |-> <<>>, calls |-> 0, failures |-> 0, sleeps |-> <<>>]

NoThreads == [th \in Threads |-> IdleThread]

\* No call has overlapped another one, raised, or stored a text
NoEpisode == [overlapped |-> FALSE, raised |-> FALSE, last_set |-> None]

\* A call made with no other call in flight returns obs; a run makes at most
\* max calls
Called(obs, max) ==
    /\ nops < max
    /\ nops' = nops + 1
    /\ res' = obs
    /\ UNCHANGED <<inflight, episode>>

(***************************************************************************)
(* Spec: the optimizer client, called directly                             *)
(***************************************************************************)
NoFile == [exists |-> FALSE, items |-> <<>>]

Init ==
    /\ cache = <<>>
    /\ now = 0
    /\ api_key \in BOOLEAN
    /\ initialized = FALSE
    /\ client = FALSE
    /\ store = <<>>
    /\ file = NoFile
    /\ res = NoObs
    /\ replaced = [id \in Ids |-> {}]
    /\ nops = 0
    /\ inflight = NoThreads
    /\ episode = NoEpisode

\* deepseek_client.optimize_memory_item(content, max_tokens, use_cache)
Optimize(content, max_tokens, use_cache) ==
    /\ nops < MaxOps
    /\ \E i \in _initialize(initialized, client, api_key) :
       \E o \in optimize_memory_item(cache, now, i[2], content, max_tokens, use_cache) :
        /\ ClockOk(o.now)
        /\ initialized' = i[1]
        /\ client' = i[2]
        /\ cache' = o.cache
        /\ now' = o.now
        /\ Called(Obs(nops + 1, "optimize_memory_item", 0, content, max_tokens,
                      use_cache, now, ~o.raised, None, o), MaxOps)
        /\ UNCHANGED <<api_key, store, file, replaced>>

\* Time passes between calls
TickSteps == { TTL }
Tick(d) ==
    /\ ClockOk(now + d)
    /\ now' = now + d
    /\ UNCHANGED <<cache, api_key, initialized, client, store, file, res, replaced, nops>>
    /\ UNCHANGED <<inflight, episode>>

OptimizeStep == \E c \in Contents, m \in Budgets, u \in BOOLEAN : Optimize(c, m, u)
TickStep == \E d \in TickSteps : Tick(d)

Next ==
    \/ OptimizeStep
    \/ TickStep

Spec == Init /\ [][Next]_vars

(***************************************************************************)
(* SpecServer: the memory tools, which call the optimizer client           *)
(***************************************************************************)
\* The data file a process may start with
SeedFiles ==
    { NoFile,
      [exists |-> TRUE, items |-> <<Item(1, "t", <<"a", "b">>, 0)>>] }

Titles == { "u" }
NewContents == { <<"a", "b">>, <<"a", ":", "1">> }
ServerBudgets == { 1, 2 }

InitServer ==
    /\ cache = <<>>
    /\ now = 0
    /\ api_key \in BOOLEAN
    /\ initialized = FALSE
    /\ client = FALSE
    /\ store = <<>>
    /\ file \in SeedFiles
    /\ res = NoObs
    /\ replaced = [id \in Ids |-> {}]
    /\ nops = 0
    /\ inflight = NoThreads
    /\ episode = NoEpisode

\* Mutant of StoreAfterOptimized: the optimized text is written to the item
\* of the store
StoreWithOptimized(memories, n, optimized_content) ==
    [memories EXCEPT ![n].content = optimized_content]

\* lines 470-477: the "memory" of the result is a new dict,
\* {**memory, "content": optimized_content}; the item in the store is not
\* assigned to
StoreAfterOptimized(memories, n, optimized_content) == memories

\* get_optimized_memory(memory_id, max_tokens, use_cache)
GetOptimizedMemory(memory_id, max_tokens, use_cache) ==
    LET memories == get_memory_store(store, file)
        n == Find(memories, memory_id)
    IN  /\ nops < MaxServerOps
        /\ IF n = 0
           THEN /\ store' = memories
                /\ Called(Obs(nops + 1, "get_optimized_memory", memory_id, <<>>,
                              max_tokens, use_cache, now, FALSE, None,
                              NotFoundOutcome(cache, now)), MaxServerOps)
                /\ UNCHANGED <<cache, now, initialized, client>>
           ELSE \E i \in _initialize(initialized, client, api_key) :
                \E o \in optimize_memory_item(cache, now, i[2], memories[n].content,
                                              max_tokens, use_cache) :
                    /\ ClockOk(o.now)
                    /\ store' = StoreAfterOptimized(memories, n, o.text)
                    /\ initialized' = i[1]
                    /\ client' = i[2]
                    /\ cache' = o.cache
                    /\ now' = o.now
                    /\ Called(Obs(nops + 1, "get_optimized_memory", memory_id,
                                  memories[n].content, max_tokens, use_cache, now,
                                  ~o.raised, None, o), MaxServerOps)
        /\ UNCHANGED <<api_key, file, replaced>>

\* Mutant of UpdatedItem: a title that was supplied is not stored
UpdatedItemKeepsTitle(mem, title, content, t) ==
    Item(mem.id, mem.title, IF content.some THEN content.text ELSE mem.content, t)

\* lines 505-515: the item after its supplied fields and updated_at are set
UpdatedItem(mem, title, content, t) ==
    Item(mem.id,
         IF title.some THEN title.text ELSE mem.title,
         IF content.some THEN content.text ELSE mem.content,
         t)

\* update_memory(memory_id, title, content); an argument left out is None
UpdateMemory(memory_id, title, content) ==
    LET memories == get_memory_store(store, file)
        n == Find(memories, memory_id)
        mem == UpdatedItem(memories[n], title, content, now)
        updated == [memories EXCEPT ![n] = mem]
    IN  /\ IF n = 0
           THEN /\ store' = memories
                /\ file' = file
                /\ replaced' = replaced
                /\ Called(Obs(nops + 1, "update_memory", memory_id, <<>>, 0, FALSE,
                              now, FALSE, None, NoOutcome(cache, now)), MaxServerOps)
           ELSE /\ store' = updated
                /\ file' = save_memory_data(updated, file)
                /\ replaced' =
                     IF content.some /\ content.text # memories[n].content
                     THEN [replaced EXCEPT ![memory_id] = @ \cup {memories[n].content}]
                     ELSE replaced
                /\ Called(Obs(nops + 1, "update_memory", memory_id, mem.content, 0,
                              FALSE, now, TRUE, content, NoOutcome(cache, now)),
                          MaxServerOps)
        /\ UNCHANGED <<cache, now, api_key, initialized, client>>

GetOptimizedMemoryStep ==
    \E id \in Ids, m \in ServerBudgets, u \in BOOLEAN : GetOptimizedMemory(id, m, u)
UpdateMemoryStep ==
    \E id \in Ids, t \in {None} \cup {Some(x) : x \in Titles},
       c \in {None} \cup {Some(x) : x \in NewContents} : UpdateMemory(id, t, c)

NextServer ==
    \/ GetOptimizedMemoryStep
    \/ UpdateMemoryStep
    \/ TickStep

SpecServer == InitServer /\ [][NextServer]_vars

(***************************************************************************)
(* SpecStore: the tools that read and change the store                     *)
(***************************************************************************)
MaxStoreOps == 3     \* calls of the store tools in one run

\* The data file a process may start with: none, one without items, one with
\* mem-001, one with mem-001 and mem-002
StoreSeedFiles ==
    { NoFile,
      [exists |-> TRUE, items |-> <<>>],
      [exists |-> TRUE, items |-> <<Item(1, "t", <<"a", "b">>, 0)>>],
      [exists |-> TRUE, items |-> <<Item(1, "t", <<"a", "b">>, 0),
                                    Item(2, "t", <<"a">>, 0)>>] }

AddContents == { <<"c">> }

InitStore ==
    /\ cache = <<>>
    /\ now = 0
    /\ api_key \in BOOLEAN
    /\ initialized = FALSE
    /\ client = FALSE
    /\ store = <<>>
    /\ file \in StoreSeedFiles
    /\ res = NoObs
    /\ replaced = [id \in Ids |-> {}]
    /\ nops = 0
    /\ inflight = NoThreads
    /\ episode = NoEpisode

\* What a store tool returned
StoreObs(op, id, content, ok, value) ==
    Obs(nops + 1, op, id, content, 0, FALSE, now, ok, value, NoOutcome(cache, now))

\* The observation obs with one more field, base: the items seen before the
\* first of the successful delete_memory calls that ended with this one
WithBase(obs, base) ==
    [k \in DOMAIN obs \cup {"base"} |-> IF k = "base" THEN base ELSE obs[k]]

\* add_memory(title, content, type).  `memories` is the list get_memory_store()
\* returned at line 300.  generate_memory_id() calls get_memory_store() again:
\* when `memories` is empty that call binds _memory_store to a newly loaded
\* list, and memories.append then changes a list that is the store no more.
AddMemory(title, content) ==
    LET memories == get_memory_store(store, file)
        new_id == generate_memory_id(memories, file)
        reloaded == memories = <<>>
        new_memory == Item(IdNum(new_id), title, content, now)
        appended == Append(memories, new_memory)
        st == IF reloaded THEN get_memory_store(memories, file) ELSE appended
    IN  /\ store' = get_memory_store(st, file)
        /\ file' = save_memory_data(st, file)
        /\ Called(StoreObs("add_memory", new_memory.id, content, TRUE, Some(new_id)),
                  MaxStoreOps)
        /\ UNCHANGED <<cache, now, api_key, initialized, client, replaced>>

\* get_memory(memory_id)
GetMemory(memory_id) ==
    LET memories == get_memory_store(store, file)
        n == Find(memories, memory_id)
    IN  /\ store' = memories
        /\ Called(StoreObs("get_memory", memory_id,
                           IF n = 0 THEN <<>> ELSE memories[n].content, n # 0, None),
                  MaxStoreOps)
        /\ UNCHANGED <<cache, now, api_key, initialized, client, file, replaced>>

\* delete_memory(memory_id).  After memories.pop(i), save_memory_data() calls
\* get_memory_store(), which loads the file again when the list is now empty.
DeleteMemory(memory_id) ==
    LET memories == get_memory_store(store, file)
        n == Find(memories, memory_id)
        popped == RemoveAt(memories, n)
        base == IF res.op = "delete_memory" /\ res.ok THEN res.base ELSE memories
    IN  /\ IF n = 0
           THEN /\ store' = memories
                /\ file' = file
                /\ Called(StoreObs("delete_memory", memory_id, <<>>, FALSE, None),
                          MaxStoreOps)
           ELSE /\ store' = get_memory_store(popped, file)
                /\ file' = save_memory_data(popped, file)
                /\ Called(WithBase(StoreObs("delete_memory", memory_id,
                                            memories[n].content, TRUE, None), base),
                          MaxStoreOps)
        /\ UNCHANGED <<cache, now, api_key, initialized, client, replaced>>

\* reset_memory()
ResetMemory ==
    /\ store' = get_memory_store(reset_memory_store(file), file)
    /\ Called(StoreObs("reset_memory", 0, <<>>, TRUE, None), MaxStoreOps)
    /\ UNCHANGED <<cache, now, api_key, initialized, client, file, replaced>>

\* generate_memory_id(), called on its own
GenerateMemoryId ==
    /\ store' = get_memory_store(store, file)
    /\ Called(StoreObs("generate_memory_id", 0, <<>>, TRUE,
                       Some(generate_memory_id(store, file))), MaxStoreOps)
    /\ UNCHANGED <<cache, now, api_key, initialized, client, file, replaced>>

AddMemoryStep == \E t \in Titles, c \in AddContents : AddMemory(t, c)
GetMemoryStep == \E id \in Ids : GetMemory(id)
DeleteMemoryStep == \E id \in Ids : DeleteMemory(id)

NextStore ==
    \/ AddMemoryStep
    \/ GetMemoryStep
    \/ DeleteMemoryStep
    \/ ResetMemory
    \/ GenerateMemoryId
    \/ UpdateMemoryStep
    \/ TickStep

SpecStore == InitStore /\ [][NextStore]_vars

(***************************************************************************)
(* SpecServerEmpty: the same tools, an item's content possibly empty and   *)
(* the budget possibly negative                                            *)
(***************************************************************************)
EmptyContents == { <<>>, <<"a", "b">> }
EmptyBudgets == { -1, 2 }

GetOptimizedMemoryEmptyStep ==
    \E id \in Ids, m \in EmptyBudgets, u \in BOOLEAN : GetOptimizedMemory(id, m, u)
UpdateMemoryEmptyStep ==
    \E id \in Ids, c \in {Some(x) : x \in EmptyContents} : UpdateMemory(id, None, c)

NextServerEmpty ==
    \/ GetOptimizedMemoryEmptyStep
    \/ UpdateMemoryEmptyStep

SpecServerEmpty == InitStore /\ [][NextServerEmpty]_vars

(***************************************************************************)
(* SpecCache: the cache alone, its methods called with any arguments       *)
(***************************************************************************)
CacheContents == { <<"a">>, <<"a", ":", "1">> }
CacheBudgets == { 1, 12 }
CacheTexts == { <<>>, <<"x">> }
CacheTickSteps == { 1, TTL, TTL + 1 }

\* cache.get(content, max_tokens)
DoGet(content, max_tokens) ==
    LET got == CacheGet(cache, content, max_tokens, now) IN
    /\ cache' = got.cache
    /\ Called(Obs(nops + 1, "get", 0, content, max_tokens, TRUE, now,
                  _get_hash(content, max_tokens) \in DOMAIN cache,
                  got.value, NoOutcome(cache, now)), MaxCacheOps)
    /\ UNCHANGED <<now, api_key, initialized, client, store, file, replaced>>

\* cache.set(content, max_tokens, optimized_text, original_tokens, optimized_tokens)
DoSet(content, max_tokens, optimized_text) ==
    /\ cache' = CacheSet(cache, content, max_tokens, optimized_text,
                         count_tokens(content), count_tokens(optimized_text), now)
    /\ Called(Obs(nops + 1, "set", 0, content, max_tokens, TRUE, now, TRUE,
                  Some(optimized_text), NoOutcome(cache, now)), MaxCacheOps)
    /\ UNCHANGED <<now, api_key, initialized, client, store, file, replaced>>

\* cache.clear()
DoClear ==
    /\ cache' = CacheClear(cache)
    /\ Called(Obs(nops + 1, "clear", 0, <<>>, 0, TRUE, now, TRUE, None,
                  NoOutcome(cache, now)), MaxCacheOps)
    /\ UNCHANGED <<now, api_key, initialized, client, store, file, replaced>>

\* The observation obs with one more field, stats: what get_stats returned
WithStats(obs, stats) ==
    [k \in DOMAIN obs \cup {"stats"} |-> IF k = "stats" THEN stats ELSE obs[k]]

\* cache.get_stats()
DoStats ==
    /\ cache' = cache
    /\ Called(WithStats(Obs(nops + 1, "get_stats", 0, <<>>, 0, TRUE, now, TRUE, None,
                            NoOutcome(cache, now)), get_stats(cache)), MaxCacheOps)
    /\ UNCHANGED <<now, api_key, initialized, client, store, file, replaced>>

\* Time passes between calls
CacheTick(d) ==
    /\ nops < MaxCacheOps
    /\ nops' = nops + 1
    /\ now' = now + d
    /\ UNCHANGED <<cache, api_key, initialized, client, store, file, res, replaced>>
    /\ UNCHANGED <<inflight, episode>>

DoGetStep == \E c \in CacheContents, m \in CacheBudgets : DoGet(c, m)
DoSetStep ==
    \E c \in CacheContents, m \in CacheBudgets, x \in CacheTexts : DoSet(c, m, x)
CacheTickStep == \E d \in CacheTickSteps : CacheTick(d)

NextCache ==
    \/ DoGetStep
    \/ DoSetStep
    \/ DoClear
    \/ DoStats
    \/ CacheTickStep

SpecCache == Init /\ [][NextCache]_vars

(***************************************************************************)
(* SpecCacheClient: the cache used by the optimizer client and directly    *)
(***************************************************************************)
\* The direct calls are for a pair the optimizer client is called with too
ClientGetStep == DoGet(<<"a", ":", "1">>, 2)
ClientSetStep == DoSet(<<"a", ":", "1">>, 2, <<"y">>)

NextCacheClient ==
    \/ OptimizeStep
    \/ ClientGetStep
    \/ ClientSetStep
    \/ DoClear
    \/ TickStep

SpecCacheClient == Init /\ [][NextCacheClient]_vars

(***************************************************************************)
(* SpecThreads: optimize_memory_item called from two threads.  The object  *)
(* holds no lock, so the calls interleave between any two accesses to the  *)
(* cache dict and the clock; what a call holds in local variables is its   *)
(* own.                                                                    *)
(***************************************************************************)
MaxThreadCalls == 3  \* calls begun by the threads in one run

\* The calls are all for one pair, over its budget
ThreadContents == { <<"a", "b">> }
ThreadBudgets == { 1 }
ThreadTexts == { <<" ", "x">>, <<"y">> }
ThreadReplies ==
    { [kind |-> "raise", text |-> <<>>] }
    \cup { [kind |-> "text", text |-> t] : t \in ThreadTexts }
ThreadTickSteps == { TTL + 1 }

InFlight == { th \in Threads : inflight[th].pc # "idle" }

\* The call of thread th goes on at pc with the locals l
GoesOn(th, pc, l) ==
    /\ inflight' = [inflight EXCEPT ![th] = [l EXCEPT !.pc = pc]]
    /\ UNCHANGED <<res, nops>>

\* The call of thread th ends with outcome o (returned, or raised)
Ends(th, o, ep) ==
    /\ inflight' = [inflight EXCEPT ![th] = IdleThread]
    /\ nops' = nops + 1
    /\ res' = Obs(nops + 1, "optimize_memory_item", th, inflight[th].content,
                  inflight[th].max_tokens, TRUE, inflight[th].at, ~o.raised, None, o)
    /\ episode' = [ep EXCEPT !.raised = @ \/ o.raised]

\* An exception that leaves OptimizedCache.get leaves optimize_memory_item:
\* the call on line 190 is outside any try
KeyErrorOutcome(original_tokens, c, t) ==
    Outcome(TRUE, <<>>, FALSE, original_tokens, 0, FALSE, ReductionAbsent,
            "KeyError", FALSE, 0, c, t, 0, 0, <<>>, "cache", <<>>)

\* lines 168-187: the call begins; _initialize and count_tokens
Begin(th, content, max_tokens) ==
    /\ inflight[th].pc = "idle"
    /\ nops + Cardinality(InFlight) < MaxThreadCalls
    /\ \E i \in _initialize(initialized, client, api_key) :
        /\ initialized' = i[1]
        /\ client' = i[2]
    /\ inflight' = [inflight EXCEPT ![th] =
                       [IdleThread EXCEPT !.pc = "lookup", !.content = content,
                                          !.max_tokens = max_tokens, !.at = now]]
    /\ episode' = IF InFlight = {} THEN NoEpisode
                  ELSE [episode EXCEPT !.overlapped = TRUE]
    /\ UNCHANGED <<cache, now, api_key, store, file, res, replaced, nops>>

\* lines 200-239 after the cache gave nothing: the budget, the client
AfterMiss(th, c) ==
    LET l == inflight[th]
        original_tokens == count_tokens(l.content)
    IN  IF WithinBudget(original_tokens, l.max_tokens)
        THEN Ends(th, BudgetOutcome(l.content, original_tokens, c, now), episode)
        ELSE IF ClientMissing(client)
        THEN Ends(th, NoClientOutcome(l.content, original_tokens, c, now), episode)
        ELSE GoesOn(th, "call", l) /\ UNCHANGED episode

\* lines 54-55 and 64: entry = self.cache.get(cache_key); if entry:
Lookup(th) ==
    LET l == inflight[th]
        cache_key == _get_hash(l.content, l.max_tokens)
    IN  /\ l.pc = "lookup"
        /\ IF cache_key \in DOMAIN cache
           THEN /\ GoesOn(th, "expiry", [l EXCEPT !.entry = HeldEntry(cache[cache_key])])
                /\ UNCHANGED episode
           ELSE AfterMiss(th, cache)
        /\ UNCHANGED <<cache, now, api_key, initialized, client, store, file, replaced>>

\* lines 59 and 63, then 191-198: the age of the entry held, by the clock of
\* now; an entry young enough is the hit
ExpiryCheck(th) ==
    LET l == inflight[th]
    IN  /\ l.pc = "expiry"
        /\ IF Expired(l.entry, now)
           THEN GoesOn(th, "delete", l) /\ UNCHANGED episode
           ELSE IF l.entry.optimized_text # <<>>
           THEN Ends(th, CacheHitOutcome(l.entry.optimized_text, l.content,
                                         count_tokens(l.content), cache, now,
                                         l.entry.for_content), episode)
           ELSE AfterMiss(th, cache)
        /\ UNCHANGED <<cache, now, api_key, initialized, client, store, file, replaced>>

\* lines 60-61: del self.cache[cache_key], which raises KeyError when the key
\* is no longer in the dict
Delete(th) ==
    LET l == inflight[th]
        cache_key == _get_hash(l.content, l.max_tokens)
    IN  /\ l.pc = "delete"
        /\ IF cache_key \in DOMAIN cache
           THEN /\ cache' = Without(cache, cache_key)
                /\ AfterMiss(th, Without(cache, cache_key))
           ELSE /\ cache' = cache
                /\ Ends(th, KeyErrorOutcome(count_tokens(l.content), cache, now), episode)
        /\ UNCHANGED <<now, api_key, initialized, client, store, file, replaced>>

\* lines 270-274 and 276-285: the except clause of attempt l.attempt, and the
\* end of the loop
Failed(th, l, c, ep) ==
    IF SleepsAfter(l.attempt)
    THEN /\ GoesOn(th, "sleep",
                   [l EXCEPT !.sleeps = @ \o <<Sleep(Backoff(l.attempt), l.calls)>>])
         /\ episode' = ep
    ELSE IF LoopDone(l.attempt + 1)
    THEN Ends(th, ExhaustedOutcome(l.content, count_tokens(l.content), c, now,
                                   l.calls, l.failures, l.sleeps), ep)
    ELSE GoesOn(th, "call", [l EXCEPT !.attempt = @ + 1]) /\ episode' = ep

\* lines 243-254: one provider call and the strip of its answer
ProviderCall(th, reply) ==
    LET l == inflight[th]
        called == [l EXCEPT !.calls = @ + 1]
    IN  /\ l.pc = "call"
        /\ IF reply.kind = "text"
           THEN /\ GoesOn(th, "set", [called EXCEPT !.optimized = Strip(reply.text)])
                /\ UNCHANGED episode
           ELSE Failed(th, [called EXCEPT !.failures = @ + 1], cache, episode)
        /\ UNCHANGED <<cache, now, api_key, initialized, client, store, file, replaced>>

\* lines 257-268: self.cache.set(...), then the return expression
Set(th) ==
    LET l == inflight[th]
        original_tokens == count_tokens(l.content)
        c1 == CacheSet(cache, l.content, l.max_tokens, l.optimized, original_tokens,
                       count_tokens(l.optimized), now)
        ep == [episode EXCEPT !.last_set = Some(l.optimized)]
    IN  /\ l.pc = "set"
        /\ cache' = c1
        /\ IF ReductionRaises(original_tokens)
           THEN Failed(th, l, c1, ep)
           ELSE Ends(th, SuccessOutcome(l.optimized, l.content, original_tokens,
                                        l.attempt, c1, now, l.calls, l.failures,
                                        l.sleeps), ep)
        /\ UNCHANGED <<now, api_key, initialized, client, store, file, replaced>>

\* line 273: time.sleep(2 ** attempt) is over; the next iteration
Wake(th) ==
    LET l == inflight[th]
    IN  /\ l.pc = "sleep"
        /\ ClockOk(now + Backoff(l.attempt))
        /\ now' = now + Backoff(l.attempt)
        /\ GoesOn(th, "call", [l EXCEPT !.attempt = @ + 1])
        /\ UNCHANGED <<cache, api_key, initialized, client, store, file, replaced, episode>>

BeginStep == \E th \in Threads, c \in ThreadContents, m \in ThreadBudgets : Begin(th, c, m)
LookupStep == \E th \in Threads : Lookup(th)
ExpiryCheckStep == \E th \in Threads : ExpiryCheck(th)
DeleteStep == \E th \in Threads : Delete(th)
ProviderCallStep == \E th \in Threads, r \in ThreadReplies : ProviderCall(th, r)
SetStep == \E th \in Threads : Set(th)
WakeStep == \E th \in Threads : Wake(th)
ThreadTickStep == \E d \in ThreadTickSteps : Tick(d)

NextThreads ==
    \/ BeginStep
    \/ LookupStep
    \/ ExpiryCheckStep
    \/ DeleteStep
    \/ ProviderCallStep
    \/ SetStep
    \/ WakeStep
    \/ ThreadTickStep

SpecThreads == Init /\ [][NextThreads]_vars

(***************************************************************************)
(* Properties                                                              *)
(***************************************************************************)
IsOptimize(r) == r.op = "optimize_memory_item"

\* The content of the call r is over the budget of the call
OverBudget(r) == count_tokens(r.content) > r.max_tokens

\* C1: optimize_memory_item never raises to its caller: whatever the content,
\* the budget, use_cache, the cache and the provider do, it returns a text and
\* metadata.
C1_NeverRaises == IsOptimize(res) => ~res.raised

\* C2: whenever optimize_memory_item returns metadata with success false, the
\* returned text is exactly the content passed in.
C2_FailureReturnsContent ==
    (IsOptimize(res) /\ ~res.raised /\ ~res.success) => res.text = res.content

C2_Witness ==
    /\ IsOptimize(res) /\ ~res.raised /\ ~res.success
    /\ res.content # <<>> /\ res.calls = MaxAttempts

\* C3: when the provider fails on every call, optimize_memory_item on
\* over-budget content (a client being configured and the cache holding
\* nothing for it) returns the content with success false and fallback true
\* after exactly 3 provider calls.
C3_ThreeAttemptsThenFallback ==
    (IsOptimize(res) /\ OverBudget(res) /\ client /\ res.source # "cache"
        /\ res.failures = res.calls)
    => /\ ~res.raised
       /\ res.text = res.content
       /\ ~res.success
       /\ res.fallback
       /\ res.calls = 3

C3_Witness ==
    /\ IsOptimize(res) /\ OverBudget(res) /\ client
    /\ res.failures = 3 /\ res.calls = 3 /\ res.fallback

\* C4: content whose token count is at most max_tokens comes back unchanged
\* with success true, cached false and reduction "0%", without any provider
\* call, whether or not a client is configured.
C4_BudgetShortCircuit ==
    (IsOptimize(res) /\ ~OverBudget(res))
    => /\ ~res.raised
       /\ res.text = res.content
       /\ res.success
       /\ ~res.cached
       /\ res.reduction = [fmt |-> "0%", tenths |-> 0]
       /\ res.calls = 0

C4_Witness ==
    /\ IsOptimize(res) /\ count_tokens(res.content) = res.max_tokens
    /\ client /\ res.use_cache /\ res.n = 2 /\ res.calls = 0

\* res' is what a call of op returned in this step
Returns(op) == res'.n # res.n /\ res'.op = op

\* In this step optimize_memory_item returns from a call with use_cache true
\* whose content and budget are those of the call before it, which was a call
\* of optimize_memory_item with use_cache true as well
SecondCall ==
    /\ IsOptimize(res) /\ res.use_cache
    /\ Returns("optimize_memory_item") /\ res'.use_cache
    /\ res'.content = res.content /\ res'.max_tokens = res.max_tokens

\* The cache holds an entry stored for (content, max_tokens) that is not
\* expired at time t
FreshEntryFor(content, max_tokens, t) ==
    \E k \in DOMAIN cache :
        /\ cache[k].for_content = content
        /\ cache[k].for_max_tokens = max_tokens
        /\ t - cache[k].timestamp <= TTL

C6_NonEmptyText ==
    (IsOptimize(res) /\ ~res.raised /\ res.content # <<>>) => res.text # <<>>

\* C7: after a provider optimization that succeeded with use_cache true, a
\* later call with the same content and budget and use_cache true, made before
\* the entry expires, makes no provider call and returns the stored text with
\* success true, cached true and optimized_tokens counted from that text.
C7_CacheHitBypassesProvider ==
    [][(SecondCall /\ res.success /\ res.source = "provider"
            /\ res'.at - res.end <= TTL)
        => /\ ~res'.raised
           /\ res'.calls = 0
           /\ res'.text = res.text
           /\ res'.success
           /\ res'.cached
           /\ res'.optimized_tokens = count_tokens(res.text)]_vars

\* The entry e was stored by a set for (content, max_tokens)
StoredFor(e, content, max_tokens) ==
    e.for_content = content /\ e.for_max_tokens = max_tokens

\* Every entry of the cache but that under key k is the same after the step
OthersUnchanged(k) ==
    /\ DOMAIN cache' \subseteq DOMAIN cache
    /\ \A j \in DOMAIN cache \ {k} : j \in DOMAIN cache' /\ cache'[j] = cache[j]

\* C8: get returns an entry set at time T at any time t with t - T < TTL; at
\* any time t with t - T > TTL it returns no value and deletes that entry,
\* leaving every other entry unchanged; time passing alone removes nothing.
C8_TTLExpiry ==
    [][/\ Returns("get") =>
            \A k \in DOMAIN cache :
                StoredFor(cache[k], res'.content, res'.max_tokens) =>
                    /\ now - cache[k].timestamp < TTL =>
                           /\ res'.value = Some(cache[k].optimized_text)
                           /\ cache' = cache
                    /\ now - cache[k].timestamp > TTL =>
                           /\ res'.value = None
                           /\ k \notin DOMAIN cache'
                           /\ OthersUnchanged(k)
       /\ (now' # now /\ res' = res) => cache' = cache]_vars

C8_Witness ==
    /\ res.op = "get" /\ res.ok /\ res.value = None
    /\ \E k \in DOMAIN cache : now - cache[k].timestamp > TTL

\* C9: an entry stored for (content, b1) is never returned by a lookup for
\* (content, b2) with b2 # b1, and storing for one pair never overwrites the
\* entry of another: two distinct (content, max_tokens) pairs never share an
\* entry.
C9_KeySensitivity ==
    [][/\ (Returns("get") /\ res'.value.some) =>
            \E k \in DOMAIN cache :
                /\ StoredFor(cache[k], res'.content, res'.max_tokens)
                /\ res'.value.text = cache[k].optimized_text
       /\ Returns("set") =>
            \A k \in DOMAIN cache :
                ~StoredFor(cache[k], res'.content, res'.max_tokens) =>
                    k \in DOMAIN cache' /\ cache'[k] = cache[k]]_vars

C9_Witness ==
    /\ res.op = "get" /\ res.value.some
    /\ \E k1, k2 \in DOMAIN cache :
        /\ cache[k1].for_content = res.content
        /\ cache[k2].for_content = res.content
        /\ cache[k1].for_max_tokens = res.max_tokens
        /\ cache[k2].for_max_tokens # res.max_tokens
        /\ cache[k1].optimized_text = res.value.text
        /\ cache[k2].optimized_text # res.value.text

\* C10: once update_memory has changed an item's content from c1 to c2, a
\* get_optimized_memory for that id returns text derived from c2 (c2 itself,
\* an optimization of c2, or a cache entry stored for c2), never the text
\* cached for c1.
C10_NoStaleText ==
    (res.op = "get_optimized_memory" /\ res.ok)
    => \E n \in 1 .. Len(store) :
        /\ store[n].id = res.id
        /\ res.derived_from = store[n].content
        /\ res.derived_from \notin replaced[res.id] \ {store[n].content}

C10_Witness ==
    /\ res.op = "get_optimized_memory" /\ res.ok /\ res.use_cache
    /\ \E old \in replaced[res.id] :
        /\ old # res.content
        /\ \E k \in DOMAIN cache :
            /\ StoredFor(cache[k], old, res.max_tokens)
            /\ now - cache[k].timestamp <= TTL
            /\ cache[k].optimized_text # <<>>

\* The items a tool sees in this state: what get_memory_store() returns
Seen == get_memory_store(store, file)

\* No item of the sequence st has the id
Absent(st, id) == \A i \in 1 .. Len(st) : st[i].id # id

\* C11: get_optimized_memory with an id that is not in the store returns
\* success false and an error, and does not call the optimizer: no token is
\* counted, the cache, the clock and the client are as before, no provider
\* call is made.
C11_NotFoundPropagation ==
    [][(Returns("get_optimized_memory") /\ Absent(Seen, res'.id))
        => /\ ~res'.ok
           /\ res'.error = "not found"
           /\ res'.source = "none"
           /\ res'.original_tokens = 0 /\ res'.calls = 0
           /\ cache' = cache /\ now' = now
           /\ initialized' = initialized /\ client' = client]_vars

C11_Witness ==
    /\ res.op = "get_optimized_memory" /\ ~res.ok /\ res.error = "not found"
    /\ store # <<>> /\ Absent(store, res.id)
    /\ cache # <<>> /\ res.use_cache

\* C12: when the item id exists, get_optimized_memory returns success true at
\* its own layer whatever the optimizer does; an optimizer failure shows only
\* as optimization.success false with fallback true, and the memory content
\* returned is then the item's own content.
C12_OuterSuccess ==
    (res.op = "get_optimized_memory" /\ ~Absent(store, res.id))
    => /\ res.ok
       /\ ~res.success => (res.fallback /\ res.text = res.content)

\* C13: with no provider client configured, optimize_memory_item on content
\* over the budget that has no fresh cache entry returns the content unchanged
\* with success false and fallback true; it makes no provider call, takes no
\* backoff sleep and leaves the cache unchanged.
C13_ClientUnavailableTerminal ==
    [][(Returns("optimize_memory_item") /\ OverBudget(res') /\ ~client'
            /\ ~FreshEntryFor(res'.content, res'.max_tokens, now))
        => /\ ~res'.raised
           /\ res'.text = res'.content
           /\ ~res'.success
           /\ res'.fallback
           /\ res'.calls = 0
           /\ res'.sleeps = <<>> /\ now' = now
           /\ cache' = cache]_vars

C13_Witness ==
    /\ IsOptimize(res) /\ OverBudget(res) /\ res.use_cache /\ res.n = 2
    /\ api_key /\ initialized /\ ~client
    /\ res.fallback /\ res.error = "DeepSeek client not initialized"

\* The call r ran through the whole retry loop without a successful attempt
Exhausted(r) == IsOptimize(r) /\ r.error = "Optimization failed after 3 attempts"

\* C14: across 3 failing attempts the sleeps are 1 second after the first
\* failure and 2 seconds after the second, 3 seconds in all, each between a
\* failed attempt and the next attempt, and none after the third failure.
C14_BackoffTiming ==
    Exhausted(res)
    => /\ res.calls = 3
       /\ res.sleeps = << [secs |-> 1, after |-> 1], [secs |-> 2, after |-> 2] >>
       /\ res.end - res.at = 3

C14_Witness ==
    /\ Exhausted(res) /\ res.failures = 3 /\ res.content # <<>>
    /\ Len(res.sleeps) = 2 /\ res.end = res.at + 3 /\ res.at = TTL

\* C15: after delete_memory(id) returned success true for an id of the store,
\* whatever the store holds (a single item included), the store holds one
\* item fewer and get_memory(id) returns success false.
C15_DeletedNotRetrievable ==
    [][/\ (Returns("delete_memory") /\ res'.ok) =>
            /\ Len(Seen') = Len(Seen) - 1
            /\ Absent(Seen', res'.id)
       /\ (res.op = "delete_memory" /\ res.ok /\ Returns("get_memory")
                /\ res'.id = res.id) => ~res'.ok]_vars

\* C16: reset_memory after successful delete_memory calls leaves the store
\* with as many items as before the deletions, the deleted ids among them.
C16_ResetRestores ==
    [][(res.op = "delete_memory" /\ res.ok /\ Returns("reset_memory"))
        => /\ Len(Seen') = Len(res.base)
           /\ ~Absent(Seen', res.id)
           /\ \A i \in 1 .. Len(res.base) :
                Absent(Seen, res.base[i].id) => ~Absent(Seen', res.base[i].id)]_vars

\* C17: a delete_memory call, successful or not, leaves the items recorded in
\* the data file unchanged.
C17_DeleteInMemoryOnly ==
    [][Returns("delete_memory") => load_memories(file') = load_memories(file)]_vars

\* C18: after add_memory returned success true, whatever the store and the
\* data file held, the store holds one item more, the new item is retrievable
\* by the returned id, and no item held before has that id.
C18_AddCreatesItem ==
    [][(Returns("add_memory") /\ res'.ok)
        => /\ Len(Seen') = Len(Seen) + 1
           /\ Absent(Seen, res'.id)
           /\ \E i \in 1 .. Len(Seen') :
                /\ Seen'[i].id = res'.id
                /\ IdStr(Seen'[i].id) = res'.value.text
                /\ Seen'[i].content = res'.content]_vars

\* The three decimal digits of a number below 1000
ThreeDigits(n) == << Digit(n \div 100), Digit((n \div 10) % 10), Digit(n % 10) >>

\* The highest id number among the items of st
Highest(st) ==
    CHOOSE m \in {st[i].id : i \in 1 .. Len(st)} : \A i \in 1 .. Len(st) : st[i].id <= m

\* C19: generate_memory_id returns "mem-001" whenever the in-memory store is
\* empty, and otherwise "mem-" followed by the highest existing id number plus
\* one, zero-padded to three digits.
C19_GenerateMemoryId ==
    [][Returns("generate_memory_id")
        => res'.value.text =
             <<"m", "e", "m", "-">>
             \o (IF store = <<>> THEN <<"0", "0", "1">>
                 ELSE ThreeDigits(Highest(store) + 1))]_vars

\* What update_memory(id, title, content) must have done in this step
UpdateEffect(id, title, content) ==
    IF Absent(Seen, id)
    THEN ~res'.ok /\ Seen' = Seen
    ELSE /\ res'.ok
         /\ Len(Seen') = Len(Seen)
         /\ \A i \in 1 .. Len(Seen) :
              IF Seen[i].id # id THEN Seen'[i] = Seen[i]
              ELSE /\ Seen'[i].id = Seen[i].id
                   /\ Seen'[i].title = (IF title.some THEN title.text ELSE Seen[i].title)
                   /\ Seen'[i].content =
                        (IF content.some THEN content.text ELSE Seen[i].content)
                   /\ Seen'[i].updated_at = now

\* C20: update_memory on an id that is not in the store returns success false
\* and leaves every item unchanged; on an existing id it changes exactly the
\* supplied fields and updated_at of that one item, and leaves its id, its
\* other fields and every other item unchanged.
C20_UpdateFrame ==
    [][\A id \in Ids, t \in {None} \cup {Some(x) : x \in Titles},
          c \in {None} \cup {Some(x) : x \in NewContents} :
            UpdateMemory(id, t, c) => UpdateEffect(id, t, c)]_vars

C20_Witness ==
    /\ res.op = "update_memory" /\ res.ok /\ ~res.value.some
    /\ Len(store) = 2 /\ now = TTL
    /\ \E i, j \in 1 .. 2 :
        /\ store[i].id = res.id /\ store[i].title = "u"
        /\ store[i].updated_at = TTL /\ store[i].content \in {<<"a">>, <<"a", "b">>}
        /\ store[j].id # res.id /\ store[j].title = "t" /\ store[j].updated_at = 0

\* C21: an optimize_memory_item call that returns success false leaves the
\* cache exactly as it was before the call: no entry is added, changed or
\* removed.
C21_FailedCallKeepsCache ==
    [][(Returns("optimize_memory_item") /\ ~res'.raised /\ ~res'.success)
        => cache' = cache]_vars

\* C22: with use_cache false optimize_memory_item neither reads nor writes the
\* cache: a fresh entry for the same content and budget is ignored (for
\* content over the budget the provider is called, and cached false is
\* returned), and the cache is the same after the call as before it, also
\* when the provider succeeded.
C22_NoCacheUse ==
    [][(Returns("optimize_memory_item") /\ ~res'.use_cache)
        => /\ cache' = cache
           /\ ~res'.raised
           /\ ~res'.cached /\ res'.source # "cache"
           /\ (OverBudget(res') /\ client') => res'.calls >= 1]_vars

C22_Witness ==
    /\ IsOptimize(res) /\ ~res.use_cache /\ res.success /\ res.source = "provider"
    /\ \E k \in DOMAIN cache :
        /\ StoredFor(cache[k], res.content, res.max_tokens)
        /\ now - cache[k].timestamp <= TTL
        /\ cache[k].optimized_text # <<>>
        /\ cache[k].optimized_text # res.text

\* C23: the retry loop stops at the first provider response: when the provider
\* first answers at attempt n (1 <= n <= 3), the call returns success true with
\* attempts = n after exactly n provider calls, and no provider call or sleep
\* follows the answer.
C23_StopsAtFirstSuccess ==
    (IsOptimize(res) /\ res.calls > res.failures)
    => /\ ~res.raised
       /\ res.success
       /\ res.attempts = res.failures + 1
       /\ res.calls = res.attempts
       /\ Len(res.sleeps) = res.failures
       /\ \A i \in 1 .. Len(res.sleeps) : res.sleeps[i].after < res.calls

\* C24: every optimize_memory_item call ends after at most 3 provider calls
\* and at most 2 backoff sleeps (3 seconds of sleep in all), each provider
\* call returning or failing.
C24_BoundedCall ==
    IsOptimize(res)
    => /\ res.calls <= 3
       /\ Len(res.sleeps) <= 2
       /\ res.end - res.at <= 3

C24_Witness ==
    /\ IsOptimize(res) /\ res.success /\ res.source = "provider"
    /\ res.calls = 3 /\ Len(res.sleeps) = 2 /\ res.end - res.at = 3

\* C29: every entry of the cache was stored for a content and a budget with
\* more tokens in the content than the budget, and records that token count
\* as original_tokens: content within the budget is never cached.
C29_OnlyOverBudgetCached ==
    \A k \in DOMAIN cache :
        /\ count_tokens(cache[k].for_content) > cache[k].for_max_tokens
        /\ cache[k].original_tokens = count_tokens(cache[k].for_content)
        /\ k = _get_hash(cache[k].for_content, cache[k].for_max_tokens)

C29_Witness ==
    /\ IsOptimize(res) /\ res.use_cache /\ ~OverBudget(res) /\ client
    /\ count_tokens(res.content) = res.max_tokens
    /\ \E k \in DOMAIN cache :
        /\ cache[k].for_max_tokens = res.max_tokens
        /\ cache[k].original_tokens = res.max_tokens + 1

\* The keys of the entries of c that are not expired at time t
Live(c, t) == {k \in DOMAIN c : t - c[k].timestamp <= TTL}

\* C25: get_stats does not modify the cache and reports the aggregate of the
\* live (unexpired) entries only: zeros when there is none, else their number,
\* the sum of original - optimized, and that sum over the sum of original as a
\* percentage.
C25_StatsOverLiveEntries ==
    [][Returns("get_stats")
        => /\ cache' = cache
           /\ res'.stats = StatsOver(cache, Live(cache, now))]_vars

\* C26: a cache entry is not changed after its creation.  A hit (get
\* returning a text, optimize_memory_item returning cached true) leaves the
\* whole cache, the entry's text and timestamp included, as it was; an entry
\* differs after a step only when a set for its own pair replaced it by an
\* entry stamped in this step, and is gone only after clear or when a
\* lookup for its own pair found it expired.
C26_EntriesImmutable ==
    [][/\ ((Returns("get") /\ res'.value.some)
            \/ (Returns("optimize_memory_item") /\ res'.cached)) => cache' = cache
       /\ \A k \in DOMAIN cache :
            /\ (k \in DOMAIN cache' /\ cache'[k] # cache[k]) =>
                    /\ Returns("set") \/ Returns("optimize_memory_item")
                    /\ StoredFor(cache[k], res'.content, res'.max_tokens)
                    /\ StoredFor(cache'[k], res'.content, res'.max_tokens)
                    /\ cache'[k].timestamp >= now
            /\ k \notin DOMAIN cache' =>
                    \/ Returns("clear")
                    \/ /\ Returns("get") \/ Returns("optimize_memory_item")
                       /\ StoredFor(cache[k], res'.content, res'.max_tokens)
                       /\ now - cache[k].timestamp > TTL]_vars

C26_Witness ==
    /\ IsOptimize(res) /\ res.cached /\ res.at > 0
    /\ \E k \in DOMAIN cache :
        /\ StoredFor(cache[k], res.content, res.max_tokens)
        /\ cache[k].timestamp < res.at
        /\ cache[k].optimized_text = res.text

\* C27: get_optimized_memory does not modify the memory store: whatever the
\* optimizer does, the stored item's content and every other item and field
\* are the same after the call as before it, and so is the data file.
C27_StoreUntouched ==
    [][Returns("get_optimized_memory") => (Seen' = Seen /\ file' = file)]_vars

C27_Witness ==
    /\ res.op = "get_optimized_memory" /\ res.ok /\ res.success
    /\ res.source = "provider" /\ res.text # res.content
    /\ Len(store) = 2
    /\ \E n \in 1 .. 2 : store[n].id = res.id /\ store[n].content = res.content

\* In this step add_memory, update_memory or delete_memory returned success true
Saved ==
    /\ res'.n # res.n /\ res'.ok
    /\ res'.op \in {"add_memory", "update_memory", "delete_memory"}

EntriesFor(c, content, max_tokens) ==
    { k \in DOMAIN c : c[k].for_content = content /\ c[k].for_max_tokens = max_tokens }

\* C28: two calls of optimize_memory_item for the same (content, max_tokens)
\* that interleave resolve as last-writer-wins: neither call raises, a call
\* that succeeds returns its own provider result or the cached text, and once
\* both are over the cache holds exactly one entry for the pair, whose text is
\* that of the last set
C28_LastWriterWins ==
    episode.overlapped =>
        /\ ~episode.raised
        /\ (InFlight = {} /\ IsOptimize(res) /\ res.success)
               => res.source \in {"provider", "cache"}
        /\ (InFlight = {} /\ episode.last_set.some) =>
               \A c \in ThreadContents, m \in ThreadBudgets :
                   /\ Cardinality(EntriesFor(cache, c, m)) = 1
                   /\ cache[_get_hash(c, m)].optimized_text = episode.last_set.text

====
